---- MODULE Spec2Model ----
(***************************************************************************)
(* Camara-z: the camera/spectator pairing server (src/server.js) and the   *)
(* room signalling server (src/unnamed/part_000).                          *)
(*                                                                         *)
(* src/server.js holds two generations of the pairing server:              *)
(*   - lines 36..594, the retry-based server, specification Spec;          *)
(*   - lines 596..1041, the earlier server, specification SpecV2.          *)
(* Every socket.io handler runs to completion on the single-threaded event *)
(* loop, so each handler is one atomic action.                             *)
(***************************************************************************)
EXTENDS Integers, Sequences, FiniteSets, TLC

\* ------------------------------------------------------------------------
\* Bounds
\* ------------------------------------------------------------------------
\* Number of transport connections the pairing server accepts in a run.
NumIds == 3
\* Number of registerAs* messages, in a run, that come from a connection
\* that has registered before.
MaxReRegs == 1
\* Number of sockets the room server accepts in a run.
NumSockets == 3
\* Number of join messages the room server serves in a run.
MaxJoins == 3
\* Number of room objects getRoomByPassword creates in a run.
MaxRooms == 2
\* Number of distinct payloads a signalling or control message can carry.
NumPayloads == 2

\* Socket ids are opaque, unique and never reused: the k-th connection to
\* open is id k, so the insertion order of the Map is the order of the ids.
Ids == 1..NumIds
\* JavaScript null / undefined in a connectedTo field or a lookup result.
Null == 0

VARIABLES
    connections,  \* Map socket.id -> [role, status, connectedTo]
    order,        \* insertion order of the keys of connections
    nextId,       \* the id the next connection will get
    timers,       \* pending setTimeout(tryConnect) closures, in firing order
    emitted,      \* what the last handler emitted, in order
    last,         \* the event the last handler served
    calls,        \* the calls of connectCameraToSpectator the last handler made
    reregs,       \* registrations served for an already registered connection
    hist,         \* per connection: what the exhaustion claim is about
    sockets,      \* room server: Map socket.id -> socket and its handler closure
    rooms,        \* room server: Map roomId -> reference of the room object
    heap,         \* room server: the room objects, by reference
    nextSock,     \* room server: the id the next socket will get
    joins,        \* room server: join messages served
    sent,         \* room server: what the last handler emitted, in order
    rlast         \* room server: the event the last handler served

pairVars == <<connections, order, nextId, timers, emitted, last, calls, reregs, hist>>

roomVars == <<sockets, rooms, heap, nextSock, joins, sent, rlast>>

vars == <<connections, order, nextId, timers, emitted, last, calls, reregs, hist,
          sockets, rooms, heap, nextSock, joins, sent, rlast>>

\* ------------------------------------------------------------------------
\* Emissions: socket.emit(ev, payload) to connection `to`.
\* peer carries a socket id of the payload (peerId), info a tag of it.
\* ------------------------------------------------------------------------
E(to, ev, peer, info) == [to |-> to, ev |-> ev, peer |-> peer, info |-> info]

Live == DOMAIN connections

\* The entry io.on('connection') stores for a new socket.
NewConn == [role |-> "none", status |-> "connected", connectedTo |-> Null]

\* First key, in insertion order, whose entry satisfies P.
FirstKey(ord, P(_)) ==
    LET idx == {i \in 1..Len(ord) : P(ord[i])}
    IN  IF idx = {} THEN Null
        ELSE ord[CHOOSE i \in idx : \A j \in idx : i <= j]

\* Mutant: a camera is available whatever its status.
findAvailableCamera_anyStatus(ord, conn) ==
    FirstKey(ord, LAMBDA s : conn[s].role = "camera" /\ conn[s].connectedTo = Null)

\* Mutant: the last qualifying camera in insertion order is returned.
findAvailableCamera_last(ord, conn) ==
    LET idx == {i \in 1..Len(ord) :
                  /\ conn[ord[i]].role = "camera"
                  /\ conn[ord[i]].status \in {"ready", "streaming"}
                  /\ conn[ord[i]].connectedTo = Null}
    IN  IF idx = {} THEN Null
        ELSE ord[CHOOSE i \in idx : \A j \in idx : i >= j]

\* Mutant: a camera that already has a peer qualifies.
findAvailableCamera_ignoresPeer(ord, conn) ==
    FirstKey(ord, LAMBDA s : /\ conn[s].role = "camera"
                             /\ conn[s].status \in {"ready", "streaming"})


findAvailableCamera(ord, conn) ==
    FirstKey(ord, LAMBDA s : /\ conn[s].role = "camera"
                             /\ conn[s].status \in {"ready", "streaming"}
                             /\ conn[s].connectedTo = Null)

findAnySpectator(ord, conn) ==
    FirstKey(ord, LAMBDA s : conn[s].role = "spectator" /\ conn[s].connectedTo = Null)

\* ------------------------------------------------------------------------
\* connectCameraToSpectator: the result of one call on registry `conn`.
\*   ret  : the value returned ("true" / "false")
\*   conn : the registry after the call
\*   em   : what the call emitted
\* ------------------------------------------------------------------------
Failed(conn) == [ret |-> "false", conn |-> conn, em |-> <<>>]

Linked(conn, cam, spec, status) ==
    [ret  |-> "true",
     conn |-> [conn EXCEPT ![cam].connectedTo = spec,
                           ![cam].status = status,
                           ![spec].connectedTo = cam,
                           ![spec].status = status],
     em   |-> << E(cam, "connectionInitiated", spec, "camera"),
                 E(spec, "connectionInitiated", cam, "spectator") >>]

\* Mutant: the lookup of the spectator is not checked; the camera is linked
\* to an id that is not in the registry.
connectCameraToSpectator_noSpectatorCheck(conn, cameraSocketId, spectatorSocketId) ==
    IF cameraSocketId \notin DOMAIN conn THEN Failed(conn)
    ELSE IF conn[cameraSocketId].connectedTo # Null THEN Failed(conn)
    ELSE IF spectatorSocketId \notin DOMAIN conn
         THEN [ret  |-> "true",
               conn |-> [conn EXCEPT ![cameraSocketId].connectedTo = spectatorSocketId,
                                     ![cameraSocketId].status = "streaming"],
               em   |-> << E(cameraSocketId, "connectionInitiated",
                             spectatorSocketId, "camera") >>]
    ELSE Linked(conn, cameraSocketId, spectatorSocketId, "streaming")

\* Mutant: the link is written on both sides but only the camera's status is
\* set.
connectCameraToSpectator_cameraStatusOnly(conn, cameraSocketId, spectatorSocketId) ==
    IF cameraSocketId \notin DOMAIN conn THEN Failed(conn)
    ELSE IF spectatorSocketId \notin DOMAIN conn THEN Failed(conn)
    ELSE IF conn[cameraSocketId].connectedTo # Null THEN Failed(conn)
    ELSE [Linked(conn, cameraSocketId, spectatorSocketId, "streaming")
            EXCEPT !.conn[spectatorSocketId].status = conn[spectatorSocketId].status]

connectCameraToSpectator(conn, cameraSocketId, spectatorSocketId) ==
    IF cameraSocketId \notin DOMAIN conn THEN Failed(conn)
    ELSE IF spectatorSocketId \notin DOMAIN conn THEN Failed(conn)
    ELSE IF conn[cameraSocketId].connectedTo # Null THEN Failed(conn)
    ELSE Linked(conn, cameraSocketId, spectatorSocketId, "streaming")

\* What one call of connectCameraToSpectator looked like from outside: its
\* arguments, what the registry held for them before it, and what it did.
Call(conn, cam, spec, r) ==
    [cam     |-> cam,
     spec    |-> spec,
     camIn   |-> cam \in DOMAIN conn,
     specIn  |-> spec \in DOMAIN conn,
     camPeer |-> IF cam \in DOMAIN conn THEN conn[cam].connectedTo ELSE Null,
     camStatus |-> IF cam \in DOMAIN conn THEN conn[cam].status ELSE "absent",
     specPeer |-> IF spec \in DOMAIN conn THEN conn[spec].connectedTo ELSE Null,
     ret     |-> r.ret,
     changed |-> r.conn # conn,
     em      |-> r.em]

\* ------------------------------------------------------------------------
\* attemptSpectatorConnection
\* ------------------------------------------------------------------------
maxAttempts == 3

\* Mutant: the loop gives up one attempt late.
tryConnect_offByOne(ord, conn, spectatorSocketId, attempts) ==
    LET n == attempts + 1
        cameraSocketId == findAvailableCamera(ord, conn)
    IN  IF cameraSocketId = Null
        THEN IF n <= maxAttempts
             THEN [conn |-> conn, em |-> <<>>, calls |-> <<>>, retry |-> TRUE, n |-> n]
             ELSE IF spectatorSocketId \in DOMAIN conn
                  THEN [conn  |-> [conn EXCEPT ![spectatorSocketId].status = "searching"],
                        em    |-> << E(spectatorSocketId, "noCameraAvailable", Null, "exhausted") >>,
                        calls |-> <<>>, retry |-> FALSE, n |-> n]
                  ELSE [conn |-> conn, em |-> <<>>, calls |-> <<>>, retry |-> FALSE, n |-> n]
        ELSE LET r == connectCameraToSpectator(conn, cameraSocketId, spectatorSocketId)
             IN  [conn |-> r.conn, em |-> r.em,
                  calls |-> << Call(conn, cameraSocketId, spectatorSocketId, r) >>,
                  retry |-> (r.ret # "true" /\ n < maxAttempts), n |-> n]

\* Mutant: a retry is scheduled after a successful attempt too.
tryConnect_retriesAfterSuccess(ord, conn, spectatorSocketId, attempts) ==
    LET n == attempts + 1
        cameraSocketId == findAvailableCamera(ord, conn)
    IN  IF cameraSocketId = Null
        THEN IF n < maxAttempts
             THEN [conn |-> conn, em |-> <<>>, calls |-> <<>>, retry |-> TRUE, n |-> n]
             ELSE IF spectatorSocketId \in DOMAIN conn
                  THEN [conn  |-> [conn EXCEPT ![spectatorSocketId].status = "searching"],
                        em    |-> << E(spectatorSocketId, "noCameraAvailable", Null, "exhausted") >>,
                        calls |-> <<>>, retry |-> FALSE, n |-> n]
                  ELSE [conn |-> conn, em |-> <<>>, calls |-> <<>>, retry |-> FALSE, n |-> n]
        ELSE LET r == connectCameraToSpectator(conn, cameraSocketId, spectatorSocketId)
             IN  [conn |-> r.conn, em |-> r.em,
                  calls |-> << Call(conn, cameraSocketId, spectatorSocketId, r) >>,
                  retry |-> n < maxAttempts, n |-> n]

\* Mutant: findAvailableCamera is asked on the first attempt only; a retry
\* goes on what the first attempt found.
tryConnect_firstLookupOnly(ord, conn, spectatorSocketId, attempts) ==
    LET n == attempts + 1
        cameraSocketId == IF attempts = 0 THEN findAvailableCamera(ord, conn) ELSE Null
    IN  IF cameraSocketId = Null
        THEN IF n < maxAttempts
             THEN [conn |-> conn, em |-> <<>>, calls |-> <<>>, retry |-> TRUE, n |-> n]
             ELSE IF spectatorSocketId \in DOMAIN conn
                  THEN [conn  |-> [conn EXCEPT ![spectatorSocketId].status = "searching"],
                        em    |-> << E(spectatorSocketId, "noCameraAvailable", Null, "exhausted") >>,
                        calls |-> <<>>, retry |-> FALSE, n |-> n]
                  ELSE [conn |-> conn, em |-> <<>>, calls |-> <<>>, retry |-> FALSE, n |-> n]
        ELSE LET r == connectCameraToSpectator(conn, cameraSocketId, spectatorSocketId)
             IN  [conn |-> r.conn, em |-> r.em,
                  calls |-> << Call(conn, cameraSocketId, spectatorSocketId, r) >>,
                  retry |-> (r.ret # "true" /\ n < maxAttempts), n |-> n]

\* One run of the closure tryConnect whose counter was `attempts` before it.
\*   retry : whether setTimeout(tryConnect, retryDelay) was called
tryConnect(ord, conn, spectatorSocketId, attempts) ==
    LET n == attempts + 1
        cameraSocketId == findAvailableCamera(ord, conn)
    IN  IF cameraSocketId = Null
        THEN IF n < maxAttempts
             THEN [conn |-> conn, em |-> <<>>, calls |-> <<>>, retry |-> TRUE, n |-> n]
             ELSE IF spectatorSocketId \in DOMAIN conn
                  THEN [conn  |-> [conn EXCEPT ![spectatorSocketId].status = "searching"],
                        em    |-> << E(spectatorSocketId, "noCameraAvailable", Null, "exhausted") >>,
                        calls |-> <<>>, retry |-> FALSE, n |-> n]
                  ELSE [conn |-> conn, em |-> <<>>, calls |-> <<>>, retry |-> FALSE, n |-> n]
        ELSE LET r == connectCameraToSpectator(conn, cameraSocketId, spectatorSocketId)
             IN  [conn |-> r.conn, em |-> r.em,
                  calls |-> << Call(conn, cameraSocketId, spectatorSocketId, r) >>,
                  retry |-> (r.ret # "true" /\ n < maxAttempts), n |-> n]

\* ------------------------------------------------------------------------
\* handlePeerDisconnection
\* ------------------------------------------------------------------------
\* Mutant: the departing connection keeps its own connectedTo, and a
\* connection without a peer is not turned away.
handlePeerDisconnection_keepsOwnLink(ord, conn, socketId) ==
    IF socketId \notin DOMAIN conn THEN [conn |-> conn, em |-> <<>>, calls |-> <<>>]
    ELSE
      LET peerId == conn[socketId].connectedTo
          note == << E(peerId, "peerDisconnected", Null,
                       IF conn[socketId].role = "camera" THEN "wasCamera" ELSE "wasNotCamera") >>
      IN  IF peerId \notin DOMAIN conn
          THEN [conn |-> conn, em |-> <<>>, calls |-> <<>>]
          ELSE IF conn[peerId].role = "spectator"
          THEN LET c1 == [conn EXCEPT ![peerId].status = "searching",
                                      ![peerId].connectedTo = Null]
                   newCameraId == findAvailableCamera(ord, c1)
               IN  IF newCameraId # Null
                   THEN LET r == connectCameraToSpectator(c1, newCameraId, peerId)
                        IN  [conn  |-> r.conn,
                             em    |-> note \o r.em,
                             calls |-> << Call(c1, newCameraId, peerId, r) >>]
                   ELSE [conn  |-> c1,
                         em    |-> note \o << E(peerId, "noCameraAvailable", Null, "cameraLeft") >>,
                         calls |-> <<>>]
          ELSE IF conn[peerId].role = "camera"
          THEN [conn  |-> [conn EXCEPT ![peerId].status = "ready",
                                       ![peerId].connectedTo = Null],
                em    |-> note, calls |-> <<>>]
          ELSE [conn |-> conn, em |-> note, calls |-> <<>>]


\* Mutant: the wasCamera flag is taken from the role of the survivor.
handlePeerDisconnection_flagFromPeer(ord, conn, socketId) ==
    IF socketId \notin DOMAIN conn THEN [conn |-> conn, em |-> <<>>, calls |-> <<>>]
    ELSE IF conn[socketId].connectedTo = Null THEN [conn |-> conn, em |-> <<>>, calls |-> <<>>]
    ELSE
      LET peerId == conn[socketId].connectedTo
          note == << E(peerId, "peerDisconnected", Null,
                       IF conn[peerId].role = "camera" THEN "wasCamera" ELSE "wasNotCamera") >>
      IN  IF peerId \notin DOMAIN conn
          THEN [conn |-> [conn EXCEPT ![socketId].connectedTo = Null],
                em |-> <<>>, calls |-> <<>>]
          ELSE IF conn[peerId].role = "spectator"
          THEN LET c1 == [conn EXCEPT ![peerId].status = "searching",
                                      ![peerId].connectedTo = Null]
                   newCameraId == findAvailableCamera(ord, c1)
               IN  IF newCameraId # Null
                   THEN LET r == connectCameraToSpectator(c1, newCameraId, peerId)
                        IN  [conn  |-> [r.conn EXCEPT ![socketId].connectedTo = Null],
                             em    |-> note \o r.em,
                             calls |-> << Call(c1, newCameraId, peerId, r) >>]
                   ELSE [conn  |-> [c1 EXCEPT ![socketId].connectedTo = Null],
                         em    |-> note \o << E(peerId, "noCameraAvailable", Null, "cameraLeft") >>,
                         calls |-> <<>>]
          ELSE IF conn[peerId].role = "camera"
          THEN [conn  |-> [conn EXCEPT ![peerId].status = "ready",
                                       ![peerId].connectedTo = Null,
                                       ![socketId].connectedTo = Null],
                em    |-> note, calls |-> <<>>]
          ELSE [conn |-> [conn EXCEPT ![socketId].connectedTo = Null],
                em |-> note, calls |-> <<>>]

\* Mutant: a spectator survivor is reset and told no camera is available
\* without findAvailableCamera being asked.
handlePeerDisconnection_noRematch(ord, conn, socketId) ==
    IF socketId \notin DOMAIN conn THEN [conn |-> conn, em |-> <<>>, calls |-> <<>>]
    ELSE IF conn[socketId].connectedTo = Null THEN [conn |-> conn, em |-> <<>>, calls |-> <<>>]
    ELSE
      LET peerId == conn[socketId].connectedTo
          note == << E(peerId, "peerDisconnected", Null,
                       IF conn[socketId].role = "camera" THEN "wasCamera" ELSE "wasNotCamera") >>
      IN  IF peerId \notin DOMAIN conn
          THEN [conn |-> [conn EXCEPT ![socketId].connectedTo = Null],
                em |-> <<>>, calls |-> <<>>]
          ELSE IF conn[peerId].role = "spectator"
          THEN [conn  |-> [conn EXCEPT ![peerId].status = "searching",
                                       ![peerId].connectedTo = Null,
                                       ![socketId].connectedTo = Null],
                em    |-> note \o << E(peerId, "noCameraAvailable", Null, "cameraLeft") >>,
                calls |-> <<>>]
          ELSE IF conn[peerId].role = "camera"
          THEN [conn  |-> [conn EXCEPT ![peerId].status = "ready",
                                       ![peerId].connectedTo = Null,
                                       ![socketId].connectedTo = Null],
                em    |-> note, calls |-> <<>>]
          ELSE [conn |-> [conn EXCEPT ![socketId].connectedTo = Null],
                em |-> note, calls |-> <<>>]

\* Mutant: a camera survivor is unlinked but keeps the status it had.
handlePeerDisconnection_cameraKeepsStatus(ord, conn, socketId) ==
    IF socketId \notin DOMAIN conn THEN [conn |-> conn, em |-> <<>>, calls |-> <<>>]
    ELSE IF conn[socketId].connectedTo = Null THEN [conn |-> conn, em |-> <<>>, calls |-> <<>>]
    ELSE
      LET peerId == conn[socketId].connectedTo
          note == << E(peerId, "peerDisconnected", Null,
                       IF conn[socketId].role = "camera" THEN "wasCamera" ELSE "wasNotCamera") >>
      IN  IF peerId \notin DOMAIN conn
          THEN [conn |-> [conn EXCEPT ![socketId].connectedTo = Null],
                em |-> <<>>, calls |-> <<>>]
          ELSE IF conn[peerId].role = "spectator"
          THEN LET c1 == [conn EXCEPT ![peerId].status = "searching",
                                      ![peerId].connectedTo = Null]
                   newCameraId == findAvailableCamera(ord, c1)
               IN  IF newCameraId # Null
                   THEN LET r == connectCameraToSpectator(c1, newCameraId, peerId)
                        IN  [conn  |-> [r.conn EXCEPT ![socketId].connectedTo = Null],
                             em    |-> note \o r.em,
                             calls |-> << Call(c1, newCameraId, peerId, r) >>]
                   ELSE [conn  |-> [c1 EXCEPT ![socketId].connectedTo = Null],
                         em    |-> note \o << E(peerId, "noCameraAvailable", Null, "cameraLeft") >>,
                         calls |-> <<>>]
          ELSE IF conn[peerId].role = "camera"
          THEN [conn  |-> [conn EXCEPT ![peerId].status = "initializing",
                                       ![peerId].connectedTo = Null,
                                       ![socketId].connectedTo = Null],
                em    |-> note, calls |-> <<>>]
          ELSE [conn |-> [conn EXCEPT ![socketId].connectedTo = Null],
                em |-> note, calls |-> <<>>]

\* Mutant: a camera survivor is handed to a waiting spectator by writing the
\* two connectedTo fields in place.
handlePeerDisconnection_linksInPlace(ord, conn, socketId) ==
    IF socketId \notin DOMAIN conn THEN [conn |-> conn, em |-> <<>>, calls |-> <<>>]
    ELSE IF conn[socketId].connectedTo = Null THEN [conn |-> conn, em |-> <<>>, calls |-> <<>>]
    ELSE
      LET peerId == conn[socketId].connectedTo
          note == << E(peerId, "peerDisconnected", Null,
                       IF conn[socketId].role = "camera" THEN "wasCamera" ELSE "wasNotCamera") >>
      IN  IF peerId \notin DOMAIN conn
          THEN [conn |-> [conn EXCEPT ![socketId].connectedTo = Null],
                em |-> <<>>, calls |-> <<>>]
          ELSE IF conn[peerId].role = "spectator"
          THEN LET c1 == [conn EXCEPT ![peerId].status = "searching",
                                      ![peerId].connectedTo = Null]
                   newCameraId == findAvailableCamera(ord, c1)
               IN  IF newCameraId # Null
                   THEN LET r == connectCameraToSpectator(c1, newCameraId, peerId)
                        IN  [conn  |-> [r.conn EXCEPT ![socketId].connectedTo = Null],
                             em    |-> note \o r.em,
                             calls |-> << Call(c1, newCameraId, peerId, r) >>]
                   ELSE [conn  |-> [c1 EXCEPT ![socketId].connectedTo = Null],
                         em    |-> note \o << E(peerId, "noCameraAvailable", Null, "cameraLeft") >>,
                         calls |-> <<>>]
          ELSE IF conn[peerId].role = "camera"
          THEN LET c1 == [conn EXCEPT ![peerId].status = "ready",
                                      ![peerId].connectedTo = Null,
                                      ![socketId].connectedTo = Null]
                   waiting == FirstKey(ord, LAMBDA s : /\ s # socketId
                                                       /\ c1[s].role = "spectator"
                                                       /\ c1[s].connectedTo = Null)
               IN  IF waiting # Null
                   THEN [conn  |-> [c1 EXCEPT ![peerId].connectedTo = waiting,
                                              ![waiting].connectedTo = peerId],
                         em    |-> note, calls |-> <<>>]
                   ELSE [conn |-> c1, em |-> note, calls |-> <<>>]
          ELSE [conn |-> [conn EXCEPT ![socketId].connectedTo = Null],
                em |-> note, calls |-> <<>>]

handlePeerDisconnection(ord, conn, socketId) ==
    IF socketId \notin DOMAIN conn THEN [conn |-> conn, em |-> <<>>, calls |-> <<>>]
    ELSE IF conn[socketId].connectedTo = Null THEN [conn |-> conn, em |-> <<>>, calls |-> <<>>]
    ELSE
      LET peerId == conn[socketId].connectedTo
          note == << E(peerId, "peerDisconnected", Null,
                       IF conn[socketId].role = "camera" THEN "wasCamera" ELSE "wasNotCamera") >>
      IN  IF peerId \notin DOMAIN conn
          THEN [conn |-> [conn EXCEPT ![socketId].connectedTo = Null],
                em |-> <<>>, calls |-> <<>>]
          ELSE IF conn[peerId].role = "spectator"
          THEN LET c1 == [conn EXCEPT ![peerId].status = "searching",
                                      ![peerId].connectedTo = Null]
                   newCameraId == findAvailableCamera(ord, c1)
               IN  IF newCameraId # Null
                   THEN LET r == connectCameraToSpectator(c1, newCameraId, peerId)
                        IN  [conn  |-> [r.conn EXCEPT ![socketId].connectedTo = Null],
                             em    |-> note \o r.em,
                             calls |-> << Call(c1, newCameraId, peerId, r) >>]
                   ELSE [conn  |-> [c1 EXCEPT ![socketId].connectedTo = Null],
                         em    |-> note \o << E(peerId, "noCameraAvailable", Null, "cameraLeft") >>,
                         calls |-> <<>>]
          ELSE IF conn[peerId].role = "camera"
          THEN [conn  |-> [conn EXCEPT ![peerId].status = "ready",
                                       ![peerId].connectedTo = Null,
                                       ![socketId].connectedTo = Null],
                em    |-> note, calls |-> <<>>]
          ELSE [conn |-> [conn EXCEPT ![socketId].connectedTo = Null],
                em |-> note, calls |-> <<>>]

\* broadcastToRole(role, event, data)
broadcastToRole(ord, conn, role, ev, peer) ==
    LET keys == SelectSeq(ord, LAMBDA s : conn[s].role = role)
    IN  [i \in 1..Len(keys) |-> E(keys[i], ev, peer, "")]

\* ------------------------------------------------------------------------
\* History kept beside the registry (not program state), for a connection in
\* the registry:
\*   lone       : it has registered exactly once, with registerAsSpectator,
\*                served while findAvailableCamera() had nothing to return
\*   exhausted  : noCameraAvailable it got from its retry loop since then
\*   cameraLeft : noCameraAvailable it got from handlePeerDisconnection
\* ------------------------------------------------------------------------
NoHist == [lone |-> FALSE, exhausted |-> 0, cameraLeft |-> 0]

Count(em, to, info) ==
    Cardinality({i \in 1..Len(em) :
        em[i].to = to /\ em[i].ev = "noCameraAvailable" /\ em[i].info = info})

Tally(h, em) ==
    [i \in Ids |-> IF h[i].lone
                   THEN [h[i] EXCEPT !.exhausted = @ + Count(em, i, "exhausted"),
                                     !.cameraLeft = @ + Count(em, i, "cameraLeft")]
                   ELSE h[i]]

\* A connection that has a role has registered before.
MayRegister(id) == connections[id].role = "none" \/ reregs < MaxReRegs

Registered(id) == IF connections[id].role = "none" THEN reregs ELSE reregs + 1

Ev(ev, id, n) == [ev |-> ev, id |-> id, n |-> n]

\* ------------------------------------------------------------------------
\* The retry-based server, src/server.js lines 36..594
\* ------------------------------------------------------------------------
Init ==
    /\ connections = << >>
    /\ order = << >>
    /\ nextId = 1
    /\ timers = << >>
    /\ emitted = << >>
    /\ calls = << >>
    /\ last = Ev("start", Null, 0)
    /\ reregs = 0
    /\ hist = [i \in Ids |-> NoHist]
    /\ sockets = << >>
    /\ rooms = << >>
    /\ heap = << >>
    /\ nextSock = 1
    /\ joins = 0
    /\ sent = << >>
    /\ rlast = [ev |-> "start", id |-> Null, target |-> Null, payload |-> 0,
                room |-> Null, role |-> "none", old |-> Null]

\* io.on('connection')
connection ==
    /\ UNCHANGED roomVars
    /\ nextId <= NumIds
    /\ connections' = connections @@ (nextId :> NewConn)
    /\ order' = Append(order, nextId)
    /\ nextId' = nextId + 1
    /\ emitted' = << >>
    /\ calls' = << >>
    /\ last' = Ev("connection", nextId, 0)
    /\ UNCHANGED <<timers, reregs, hist>>

\* socket.on('authenticate')
authenticate(id) ==
    /\ UNCHANGED roomVars
    /\ id \in Live
    /\ \E isValid \in BOOLEAN :
          emitted' = << E(id, "authResult", Null, IF isValid THEN "success" ELSE "failure") >>
    /\ calls' = << >>
    /\ last' = Ev("authenticate", id, 0)
    /\ UNCHANGED <<connections, order, nextId, timers, reregs, hist>>

\* socket.on('registerAsCamera')
registerAsCamera(id) ==
    /\ UNCHANGED roomVars
    /\ id \in Live
    /\ MayRegister(id)
    /\ LET c1 == [connections EXCEPT ![id].role = "camera", ![id].status = "initializing"]
           spectatorSocketId == findAnySpectator(order, c1)
           r == IF spectatorSocketId # Null
                THEN connectCameraToSpectator(c1, id, spectatorSocketId)
                ELSE [ret |-> "none", conn |-> c1, em |-> << >>]
           em == << E(id, "cameraRegistered", Null, "") >> \o r.em
       IN  /\ connections' = r.conn
           /\ emitted' = em
           /\ calls' = IF spectatorSocketId # Null
                       THEN << Call(c1, id, spectatorSocketId, r) >> ELSE << >>
           /\ hist' = Tally([hist EXCEPT ![id] = NoHist], em)
    /\ reregs' = Registered(id)
    /\ last' = Ev("registerAsCamera", id, 0)
    /\ UNCHANGED <<order, nextId, timers>>

\* socket.on('cameraReady')
cameraReady(id) ==
    /\ UNCHANGED roomVars
    /\ id \in Live
    /\ last' = Ev("cameraReady", id, 0)
    /\ IF connections[id].role # "camera"
       THEN /\ emitted' = << >>
            /\ calls' = << >>
            /\ UNCHANGED <<connections, hist>>
       ELSE LET c1 == [connections EXCEPT ![id].status = "ready"]
                peer == c1[id].connectedTo
                spectatorSocketId == findAnySpectator(order, c1)
            IN  IF peer # Null
                THEN /\ connections' = c1
                     /\ emitted' = IF peer \in DOMAIN c1
                                   THEN << E(peer, "peerReady", Null, "") >> ELSE << >>
                     /\ calls' = << >>
                     /\ UNCHANGED hist
                ELSE IF spectatorSocketId # Null
                THEN LET r == connectCameraToSpectator(c1, id, spectatorSocketId)
                     IN  /\ connections' = r.conn
                         /\ emitted' = r.em
                         /\ calls' = << Call(c1, id, spectatorSocketId, r) >>
                         /\ hist' = Tally(hist, r.em)
                ELSE /\ connections' = c1
                     /\ emitted' = broadcastToRole(order, c1, "spectator", "cameraAvailable", id)
                     /\ calls' = << >>
                     /\ UNCHANGED hist
    /\ UNCHANGED <<order, nextId, timers, reregs>>

\* socket.on('registerAsSpectator'): the handler and the first, synchronous
\* run of tryConnect inside attemptSpectatorConnection.
registerAsSpectator(id) ==
    /\ UNCHANGED roomVars
    /\ id \in Live
    /\ MayRegister(id)
    /\ LET c1 == [connections EXCEPT ![id].role = "spectator", ![id].status = "searching"]
           r == tryConnect(order, c1, id, 0)
       IN  /\ connections' = r.conn
           /\ emitted' = r.em
           /\ calls' = r.calls
           /\ timers' = IF r.retry
                        THEN Append(timers, [sid |-> id, attempts |-> r.n]) ELSE timers
           /\ hist' = Tally([hist EXCEPT ![id] =
                                [NoHist EXCEPT !.lone =
                                    /\ connections[id].role = "none"
                                    /\ findAvailableCamera(order, c1) = Null]],
                            r.em)
           /\ last' = Ev("registerAsSpectator", id, r.n)
    /\ reregs' = Registered(id)
    /\ UNCHANGED <<order, nextId>>

\* A setTimeout(tryConnect, retryDelay) callback fires. Every timer has the
\* same delay, so they fire in the order they were set.
retryTimer ==
    /\ UNCHANGED roomVars
    /\ timers # << >>
    /\ LET t == Head(timers)
           r == tryConnect(order, connections, t.sid, t.attempts)
       IN  /\ connections' = r.conn
           /\ emitted' = r.em
           /\ calls' = r.calls
           /\ timers' = IF r.retry
                        THEN Append(Tail(timers), [sid |-> t.sid, attempts |-> r.n])
                        ELSE Tail(timers)
           /\ hist' = Tally(hist, r.em)
           /\ last' = Ev("retryTimer", t.sid, r.n)
    /\ UNCHANGED <<order, nextId, reregs>>

\* A relay handler of a camera: forward ev to the connection it is linked to.
RelayToPeer(id, out) ==
    LET peer == connections[id].connectedTo
    IN  IF peer # Null /\ peer \in Live THEN << E(peer, out, Null, "") >> ELSE << >>

\* Mutant: stream_frame is served whatever the role of the sender.
stream_frame_noRoleCheck(id) ==
    /\ UNCHANGED roomVars
    /\ id \in Live
    /\ last' = Ev("stream_frame", id, 0)
    /\ calls' = << >>
    /\ connections' = IF connections[id].status # "streaming"
                      THEN [connections EXCEPT ![id].status = "streaming"]
                      ELSE connections
    /\ emitted' = RelayToPeer(id, "video_frame")
    /\ UNCHANGED <<order, nextId, timers, reregs, hist>>


\* socket.on('stream_frame')
stream_frame(id) ==
    /\ UNCHANGED roomVars
    /\ id \in Live
    /\ last' = Ev("stream_frame", id, 0)
    /\ calls' = << >>
    /\ IF connections[id].role # "camera"
       THEN /\ emitted' = << >>
            /\ UNCHANGED connections
       ELSE /\ connections' = IF connections[id].status # "streaming"
                              THEN [connections EXCEPT ![id].status = "streaming"]
                              ELSE connections
            /\ emitted' = RelayToPeer(id, "video_frame")
    /\ UNCHANGED <<order, nextId, timers, reregs, hist>>

\* The camera-side relay handlers that only forward.
CameraRelay(id, ev, out) ==
    /\ UNCHANGED roomVars
    /\ id \in Live
    /\ last' = Ev(ev, id, 0)
    /\ calls' = << >>
    /\ emitted' = IF connections[id].role # "camera" THEN << >> ELSE RelayToPeer(id, out)
    /\ UNCHANGED <<connections, order, nextId, timers, reregs, hist>>

\* socket.on('motionDetected')
motionDetected(id) == CameraRelay(id, "motionDetected", "motionAlert")

\* socket.on('toggleFlashlight')
toggleFlashlight(id) == CameraRelay(id, "toggleFlashlight", "flashlightStatus")

\* socket.on('motionStatusChange')
motionStatusChange(id) == CameraRelay(id, "motionStatusChange", "cameraMotionStatus")

\* socket.on('cameraStatusResponse')
cameraStatusResponse(id) == CameraRelay(id, "cameraStatusResponse", "cameraStatusUpdate")

\* The spectator-side relay handlers: connections.get(conn.connectedTo) and
\* forward when the lookup succeeds.
SpectatorRelay(id, ev, out) ==
    /\ UNCHANGED roomVars
    /\ id \in Live
    /\ last' = Ev(ev, id, 0)
    /\ calls' = << >>
    /\ emitted' = IF connections[id].role # "spectator" THEN << >>
                  ELSE IF connections[id].connectedTo \in Live
                       THEN << E(connections[id].connectedTo, out, Null, "") >>
                       ELSE << >>
    /\ UNCHANGED <<connections, order, nextId, timers, reregs, hist>>

\* socket.on('spectatorToggleFlashlight')
spectatorToggleFlashlight(id) ==
    SpectatorRelay(id, "spectatorToggleFlashlight", "remoteFlashlightToggle")

\* socket.on('spectatorToggleMotion')
spectatorToggleMotion(id) ==
    SpectatorRelay(id, "spectatorToggleMotion", "remoteMotionToggle")

\* socket.on('spectatorSetQuality')
spectatorSetQuality(id) ==
    SpectatorRelay(id, "spectatorSetQuality", "remoteQualityChange")

\* socket.on('spectatorRequestStatus')
spectatorRequestStatus(id) ==
    SpectatorRelay(id, "spectatorRequestStatus", "requestCameraStatus")

\* Map.delete(id)
Delete(conn, id) == [k \in (DOMAIN conn) \ {id} |-> conn[k]]

\* socket.on('disconnect')
disconnect(id) ==
    /\ UNCHANGED roomVars
    /\ id \in Live
    /\ LET r == IF connections[id].connectedTo # Null
                THEN handlePeerDisconnection(order, connections, id)
                ELSE [conn |-> connections, em |-> << >>, calls |-> << >>]
       IN  /\ connections' = Delete(r.conn, id)
           /\ emitted' = r.em
           /\ calls' = r.calls
           /\ hist' = [Tally(hist, r.em) EXCEPT ![id] = NoHist]
    /\ order' = SelectSeq(order, LAMBDA s : s # id)
    /\ last' = Ev("disconnect", id, 0)
    /\ UNCHANGED <<nextId, timers, reregs>>

Next ==
    \/ connection
    \/ \E id \in Ids : authenticate(id)
    \/ \E id \in Ids : registerAsCamera(id)
    \/ \E id \in Ids : cameraReady(id)
    \/ \E id \in Ids : registerAsSpectator(id)
    \/ retryTimer
    \/ \E id \in Ids : stream_frame(id)
    \/ \E id \in Ids : motionDetected(id)
    \/ \E id \in Ids : toggleFlashlight(id)
    \/ \E id \in Ids : motionStatusChange(id)
    \/ \E id \in Ids : cameraStatusResponse(id)
    \/ \E id \in Ids : spectatorToggleFlashlight(id)
    \/ \E id \in Ids : spectatorToggleMotion(id)
    \/ \E id \in Ids : spectatorSetQuality(id)
    \/ \E id \in Ids : spectatorRequestStatus(id)
    \/ \E id \in Ids : disconnect(id)

Spec == Init /\ [][Next]_vars

\* The handlers that decide who is linked to whom: registration, readiness,
\* the retry timers, frames (they change a camera's status) and disconnects.
NextMatch ==
    \/ connection
    \/ \E id \in Ids : registerAsCamera(id)
    \/ \E id \in Ids : cameraReady(id)
    \/ \E id \in Ids : registerAsSpectator(id)
    \/ retryTimer
    \/ \E id \in Ids : stream_frame(id)
    \/ \E id \in Ids : disconnect(id)

SpecMatch == Init /\ [][NextMatch]_vars

\* ------------------------------------------------------------------------
\* The earlier server, src/server.js lines 596..1041. It has no retry timer;
\* its relay handlers (lines 761..882) forward to the linked connection like
\* the ones above and write nothing, stream_frame included.
\* ------------------------------------------------------------------------
NewConn_v2 == [role |-> "none", status |-> "disconnected", connectedTo |-> Null]

findAvailableCamera_v2(ord, conn) ==
    FirstKey(ord, LAMBDA s : /\ conn[s].role = "camera"
                             /\ conn[s].status = "ready"
                             /\ conn[s].connectedTo = Null)

findWaitingSpectator_v2(ord, conn) ==
    FirstKey(ord, LAMBDA s : /\ conn[s].role = "spectator"
                             /\ conn[s].status = "searching"
                             /\ conn[s].connectedTo = Null)

\* The second definition of connectCameraToSpectator: it returns nothing.
connectCameraToSpectator_v2(conn, cameraSocketId, spectatorSocketId) ==
    IF cameraSocketId \notin DOMAIN conn \/ spectatorSocketId \notin DOMAIN conn
    THEN [ret |-> "undefined", conn |-> conn, em |-> << >>]
    ELSE [Linked(conn, cameraSocketId, spectatorSocketId, "connecting")
            EXCEPT !.ret = "undefined"]

\* The second definition of handlePeerDisconnection.
handlePeerDisconnection_v2(ord, conn, socketId) ==
    IF socketId \notin DOMAIN conn THEN [conn |-> conn, em |-> << >>, calls |-> << >>]
    ELSE
      LET peerId == conn[socketId].connectedTo
          hasPeer == peerId # Null /\ peerId \in DOMAIN conn
          c1 == IF hasPeer
                THEN [conn EXCEPT ![peerId].status = "searching",
                                  ![peerId].connectedTo = Null]
                ELSE conn
          em1 == IF hasPeer
                 THEN << E(peerId, "peerDisconnected", Null, "") >> ELSE << >>
          newCameraId == findAvailableCamera_v2(ord, c1)
          r == connectCameraToSpectator_v2(c1, newCameraId, peerId)
      IN  IF conn[socketId].role # "camera"
          THEN [conn |-> [c1 EXCEPT ![socketId].connectedTo = Null],
                em |-> em1, calls |-> << >>]
          ELSE IF newCameraId = Null
          THEN [conn  |-> [c1 EXCEPT ![socketId].connectedTo = Null],
                em    |-> em1 \o broadcastToRole(ord, c1, "spectator", "noCameraAvailable", Null),
                calls |-> << >>]
          ELSE IF hasPeer
          THEN [conn  |-> [r.conn EXCEPT ![socketId].connectedTo = Null],
                em    |-> em1 \o r.em,
                calls |-> << Call(c1, newCameraId, peerId, r) >>]
          ELSE [conn |-> [c1 EXCEPT ![socketId].connectedTo = Null],
                em |-> em1, calls |-> << >>]

\* io.on('connection')
connection_v2 ==
    /\ UNCHANGED roomVars
    /\ nextId <= NumIds
    /\ connections' = connections @@ (nextId :> NewConn_v2)
    /\ order' = Append(order, nextId)
    /\ nextId' = nextId + 1
    /\ emitted' = << >>
    /\ calls' = << >>
    /\ last' = Ev("connection", nextId, 0)
    /\ UNCHANGED <<timers, reregs, hist>>

\* What registerAsCamera and cameraReady do once the status is written: link
\* with a waiting spectator, or tell the spectators a camera is there.
MatchWaiting_v2(id, c1, before) ==
    LET spectatorSocketId == findWaitingSpectator_v2(order, c1)
        r == connectCameraToSpectator_v2(c1, id, spectatorSocketId)
    IN  IF spectatorSocketId # Null
        THEN /\ connections' = r.conn
             /\ emitted' = before \o r.em
             /\ calls' = << Call(c1, id, spectatorSocketId, r) >>
        ELSE /\ connections' = c1
             /\ emitted' = before \o
                   broadcastToRole(order, c1, "spectator", "cameraAvailable", id)
             /\ calls' = << >>

\* socket.on('registerAsCamera')
registerAsCamera_v2(id) ==
    /\ UNCHANGED roomVars
    /\ id \in Live
    /\ MayRegister(id)
    /\ MatchWaiting_v2(id,
          [connections EXCEPT ![id].role = "camera", ![id].status = "registered"],
          << E(id, "cameraRegistered", Null, "") >>)
    /\ reregs' = Registered(id)
    /\ last' = Ev("registerAsCamera", id, 0)
    /\ UNCHANGED <<order, nextId, timers, hist>>

\* socket.on('cameraReady')
cameraReady_v2(id) ==
    /\ UNCHANGED roomVars
    /\ id \in Live
    /\ last' = Ev("cameraReady", id, 0)
    /\ IF connections[id].role # "camera"
       THEN /\ emitted' = << >>
            /\ calls' = << >>
            /\ UNCHANGED connections
       ELSE MatchWaiting_v2(id, [connections EXCEPT ![id].status = "ready"], << >>)
    /\ UNCHANGED <<order, nextId, timers, reregs, hist>>

\* socket.on('registerAsSpectator')
registerAsSpectator_v2(id) ==
    /\ UNCHANGED roomVars
    /\ id \in Live
    /\ MayRegister(id)
    /\ LET c1 == [connections EXCEPT ![id].role = "spectator", ![id].status = "searching"]
           cameraSocketId == findAvailableCamera_v2(order, c1)
           r == connectCameraToSpectator_v2(c1, cameraSocketId, id)
       IN  IF cameraSocketId # Null
           THEN /\ connections' = r.conn
                /\ emitted' = r.em
                /\ calls' = << Call(c1, cameraSocketId, id, r) >>
           ELSE /\ connections' = c1
                /\ emitted' = << E(id, "noCameraAvailable", Null, "none") >>
                /\ calls' = << >>
    /\ reregs' = Registered(id)
    /\ last' = Ev("registerAsSpectator", id, 0)
    /\ UNCHANGED <<order, nextId, timers, hist>>

\* socket.on('stream_frame')
stream_frame_v2(id) ==
    /\ UNCHANGED roomVars
    /\ id \in Live
    /\ last' = Ev("stream_frame", id, 0)
    /\ calls' = << >>
    /\ emitted' = IF connections[id].role # "camera" THEN << >>
                  ELSE RelayToPeer(id, "video_frame")
    /\ UNCHANGED <<connections, order, nextId, timers, reregs, hist>>

\* socket.on('disconnect')
disconnect_v2(id) ==
    /\ UNCHANGED roomVars
    /\ id \in Live
    /\ LET r == handlePeerDisconnection_v2(order, connections, id)
       IN  /\ connections' = Delete(r.conn, id)
           /\ emitted' = r.em
           /\ calls' = r.calls
    /\ order' = SelectSeq(order, LAMBDA s : s # id)
    /\ last' = Ev("disconnect", id, 0)
    /\ UNCHANGED <<nextId, timers, reregs, hist>>

NextV2 ==
    \/ connection_v2
    \/ \E id \in Ids : registerAsCamera_v2(id)
    \/ \E id \in Ids : cameraReady_v2(id)
    \/ \E id \in Ids : registerAsSpectator_v2(id)
    \/ \E id \in Ids : stream_frame_v2(id)
    \/ \E id \in Ids : disconnect_v2(id)

SpecV2 == Init /\ [][NextV2]_vars

\* ------------------------------------------------------------------------
\* The room server, src/unnamed/part_000. Socket k of this server is the
\* k-th to connect. An object of the rooms Map is known by its reference,
\* its index in heap: a handler closure keeps the reference in currentRoom
\* whether or not the Map still holds the object.
\* ------------------------------------------------------------------------
SockIds == 1..NumSockets

Payloads == 1..NumPayloads

\* Passwords as sequences of UTF-16 code units: "Aa", "BB" and "zzzzzzz".
Passwords == { <<65, 97>>, <<66, 66>>, <<122, 122, 122, 122, 122, 122, 122>> }

Roles == {"camera", "viewer", "other"}

\* A 32-bit integer is held as its two 16-bit halves <<high, low>>.
Half == 65536

\* hash = ((hash << 5) - hash) + char; hash = hash & hash
HashStep(h, char) ==
    LET lo == h[2] * 31 + char
        hi == h[1] * 31 + lo \div Half
    IN  << hi % Half, lo % Half >>

RECURSIVE HashOf(_, _)
HashOf(password, i) ==
    IF i = 0 THEN <<0, 0>> ELSE HashStep(HashOf(password, i - 1), password[i])

\* Math.abs of the 32-bit two's complement value h.
Abs32(h) ==
    IF h[1] < 32768 THEN h
    ELSE << (65535 - h[1] + (IF h[2] = 0 THEN 1 ELSE 0)) % Half, (Half - h[2]) % Half >>

\* The room id is 'room_' followed by the hexadecimal digits of the value:
\* the value stands for the string.
generateRoomId(password) == Abs32(HashOf(password, Len(password)))

\* room.camera === null
NoCamera == [socketId |-> Null, autoFlashlight |-> TRUE]

NewRoom(roomId, password) ==
    [id |-> roomId, password |-> password, camera |-> NoCamera, viewers |-> << >>]

getRoomByPassword(rms, hp, password) ==
    LET roomId == generateRoomId(password)
    IN  IF roomId \in DOMAIN rms
        THEN [rooms |-> rms, heap |-> hp, room |-> rms[roomId]]
        ELSE [rooms |-> rms @@ (roomId :> Len(hp) + 1),
              heap  |-> Append(hp, NewRoom(roomId, password)),
              room  |-> Len(hp) + 1]

\* An emit of the room server: event ev to socket `to`, with the fields a
\* payload can carry (fromSocketId or cameraId, the relayed data, hasCamera,
\* a viewer count).
M(to, ev, from, payload, flag, count) ==
    [to |-> to, ev |-> ev, from |-> from, payload |-> payload, flag |-> flag,
     count |-> count]

\* io.to(roomId).emit(ev) and socket.to(roomId).emit(ev): one emit to every
\* socket that has joined the socket.io room roomId, except `except`.
ToRoom(socks, roomId, except, ev, payload) ==
    LET members == SelectSeq([k \in 1..NumSockets |-> k],
                       LAMBDA k : /\ k \in DOMAIN socks
                                  /\ k # except
                                  /\ roomId \in socks[k].joined)
    IN  [i \in 1..Len(members) |-> M(members[i], ev, Null, payload, FALSE, 0)]

NewSocket == [closing |-> FALSE, currentRoom |-> Null, clientRole |-> "none",
              clientPassword |-> << >>, joined |-> {}]

RL(ev, id, target, payload, room, role, old) ==
    [ev |-> ev, id |-> id, target |-> target, payload |-> payload,
     room |-> room, role |-> role, old |-> old]

\* The body of socket.on('disconnect') for socket id. The socket has left
\* its socket.io rooms when the handler runs.
onDisconnect(socks, hp, id) ==
    LET ref == socks[id].currentRoom
        socks1 == [k \in (DOMAIN socks) \ {id} |-> socks[k]]
        viewers == SelectSeq(hp[ref].viewers, LAMBDA v : v # id)
        cam == hp[ref].camera.socketId
    IN  IF ref = Null
        THEN [sockets |-> socks1, heap |-> hp, sent |-> << >>]
        ELSE IF socks[id].clientRole = "camera"
        THEN [sockets |-> socks1,
              heap    |-> [hp EXCEPT ![ref].camera = NoCamera],
              sent    |-> ToRoom(socks1, hp[ref].id, Null, "camera_disconnected", 0)]
        ELSE IF socks[id].clientRole = "viewer"
        THEN [sockets |-> socks1,
              heap    |-> [hp EXCEPT ![ref].viewers = viewers],
              sent    |-> IF cam # Null /\ cam \in DOMAIN socks1
                          THEN << M(cam, "viewer_count", Null, 0, FALSE, Len(viewers)) >>
                          ELSE << >>]
        ELSE [sockets |-> socks1, heap |-> hp, sent |-> << >>]

\* io.on('connection')
room_connection ==
    /\ nextSock <= NumSockets
    /\ sockets' = sockets @@ (nextSock :> NewSocket)
    /\ nextSock' = nextSock + 1
    /\ sent' = << >>
    /\ rlast' = RL("connection", nextSock, Null, 0, Null, "none", Null)
    /\ UNCHANGED <<rooms, heap, joins>>
    /\ UNCHANGED pairVars

\* socket.on('join'). oldCameraSocket.disconnect(true) closes the transport
\* of the previous camera: its 'disconnect' handler runs either inside the
\* call (sync) or in a later turn of the event loop, the socket being
\* closed to incoming events meanwhile.
join(id, password, role) ==
    /\ id \in DOMAIN sockets
    /\ ~sockets[id].closing
    /\ joins < MaxJoins
    /\ generateRoomId(password) \in DOMAIN rooms \/ Len(heap) < MaxRooms
    /\ LET g == getRoomByPassword(rooms, heap, password)
           room == g.room
           roomId == g.heap[room].id
           s1 == [sockets EXCEPT ![id].currentRoom = room,
                                 ![id].clientRole = role,
                                 ![id].clientPassword = password,
                                 ![id].joined = @ \cup {roomId}]
           old == g.heap[room].camera.socketId
           replaces == role = "camera" /\ old # Null /\ old # id
           found == replaces /\ old \in DOMAIN s1
           closes == found /\ ~s1[old].closing
       IN  \E sync \in IF closes THEN BOOLEAN ELSE {FALSE} :
             LET d == IF sync THEN onDisconnect(s1, g.heap, old)
                      ELSE [sockets |-> IF closes THEN [s1 EXCEPT ![old].closing = TRUE]
                                        ELSE s1,
                            heap    |-> g.heap,
                            sent    |-> << >>]
                 h2 == IF role = "camera"
                       THEN [d.heap EXCEPT ![room].camera =
                                [socketId |-> id, autoFlashlight |-> TRUE]]
                       ELSE IF role = "viewer"
                       THEN [d.heap EXCEPT ![room].viewers = Append(@, id)]
                       ELSE d.heap
                 cam == h2[room].camera.socketId
                 count == Len(h2[room].viewers)
             IN  /\ sockets' = d.sockets
                 /\ rooms' = g.rooms
                 /\ heap' = h2
                 /\ sent' =
                       (IF found
                        THEN << M(old, "disconnected", Null, 0, FALSE, 0) >> ELSE << >>)
                       \o d.sent
                       \o << M(id, "joined", Null, 0, cam # Null, count) >>
                       \o (IF role = "viewer" /\ cam # Null
                           THEN << M(id, "camera_available", cam, 0, FALSE, 0) >>
                           ELSE << >>)
                       \o (IF role = "viewer" /\ cam # Null /\ cam \in DOMAIN d.sockets
                           THEN << M(cam, "viewer_count", Null, 0, FALSE, count) >>
                           ELSE << >>)
                 /\ rlast' = RL("join", id, Null, 0, room, role,
                                IF replaces THEN old ELSE Null)
    /\ joins' = joins + 1
    /\ UNCHANGED nextSock
    /\ UNCHANGED pairVars

\* Mutant: the message is forwarded with the target's id as its origin.
Handshake_originIsTarget(id, ev, targetSocketId, payload) ==
    /\ id \in DOMAIN sockets
    /\ ~sockets[id].closing
    /\ sent' = IF targetSocketId \in DOMAIN sockets
               THEN << M(targetSocketId, ev, targetSocketId, payload, FALSE, 0) >>
               ELSE << >>
    /\ rlast' = RL(ev, id, targetSocketId, payload, Null, "none", Null)
    /\ UNCHANGED <<sockets, rooms, heap, nextSock, joins>>
    /\ UNCHANGED pairVars

\* The three handshake handlers: forward to sockets.get(targetSocketId).
Handshake(id, ev, targetSocketId, payload) ==
    /\ id \in DOMAIN sockets
    /\ ~sockets[id].closing
    /\ sent' = IF targetSocketId \in DOMAIN sockets
               THEN << M(targetSocketId, ev, id, payload, FALSE, 0) >>
               ELSE << >>
    /\ rlast' = RL(ev, id, targetSocketId, payload, Null, "none", Null)
    /\ UNCHANGED <<sockets, rooms, heap, nextSock, joins>>
    /\ UNCHANGED pairVars

\* socket.on('webrtc_offer')
webrtc_offer(id, targetSocketId, offer) ==
    Handshake(id, "webrtc_offer", targetSocketId, offer)

\* socket.on('webrtc_answer')
webrtc_answer(id, targetSocketId, answer) ==
    Handshake(id, "webrtc_answer", targetSocketId, answer)

\* socket.on('ice_candidate')
ice_candidate(id, targetSocketId, candidate) ==
    Handshake(id, "ice_candidate", targetSocketId, candidate)

\* socket.on('toggle_flashlight')
toggle_flashlight(id, state) ==
    /\ id \in DOMAIN sockets
    /\ ~sockets[id].closing
    /\ LET room == sockets[id].currentRoom
           cam == heap[room].camera.socketId
       IN  sent' = IF room = Null \/ sockets[id].clientRole # "viewer" THEN << >>
                   ELSE IF cam # Null /\ cam \in DOMAIN sockets
                   THEN << M(cam, "flashlight_control", Null, state, FALSE, 0) >>
                   ELSE << >>
    /\ rlast' = RL("toggle_flashlight", id, Null, state, Null, "none", Null)
    /\ UNCHANGED <<sockets, rooms, heap, nextSock, joins>>
    /\ UNCHANGED pairVars

\* socket.on('update_camera_settings')
update_camera_settings(id, autoFlashlight) ==
    /\ id \in DOMAIN sockets
    /\ ~sockets[id].closing
    /\ LET room == sockets[id].currentRoom
       IN  heap' = IF room = Null \/ sockets[id].clientRole # "camera" THEN heap
                   ELSE IF heap[room].camera.socketId # Null
                   THEN [heap EXCEPT ![room].camera.autoFlashlight = autoFlashlight]
                   ELSE heap
    /\ sent' = << >>
    /\ rlast' = RL("update_camera_settings", id, Null, 0, Null, "none", Null)
    /\ UNCHANGED <<sockets, rooms, nextSock, joins>>
    /\ UNCHANGED pairVars

\* socket.on('telemetry')
telemetry(id, data) ==
    /\ id \in DOMAIN sockets
    /\ ~sockets[id].closing
    /\ LET room == sockets[id].currentRoom
       IN  sent' = IF room = Null \/ sockets[id].clientRole # "camera" THEN << >>
                   ELSE ToRoom(sockets, heap[room].id, id, "camera_telemetry", data)
    /\ rlast' = RL("telemetry", id, Null, data, Null, "none", Null)
    /\ UNCHANGED <<sockets, rooms, heap, nextSock, joins>>
    /\ UNCHANGED pairVars

\* socket.on('disconnect'): the client or the transport ends the socket, or
\* the close a join has asked for completes.
room_disconnect(id) ==
    /\ id \in DOMAIN sockets
    /\ LET d == onDisconnect(sockets, heap, id)
       IN  /\ sockets' = d.sockets
           /\ heap' = d.heap
           /\ sent' = d.sent
    /\ rlast' = RL("disconnect", id, Null, 0, sockets[id].currentRoom,
                   sockets[id].clientRole, Null)
    /\ UNCHANGED <<rooms, nextSock, joins>>
    /\ UNCHANGED pairVars

\* The setInterval callback: delete every room without camera and viewers.
cleanup ==
    /\ rooms' = [roomId \in {r \in DOMAIN rooms :
                                \/ heap[rooms[r]].camera.socketId # Null
                                \/ heap[rooms[r]].viewers # << >>}
                   |-> rooms[roomId]]
    /\ sent' = << >>
    /\ rlast' = RL("cleanup", Null, Null, 0, Null, "none", Null)
    /\ UNCHANGED <<sockets, heap, nextSock, joins>>
    /\ UNCHANGED pairVars

\* The handlers that write the registry or a room.
NextRoom ==
    \/ room_connection
    \/ \E id \in SockIds, password \in Passwords, role \in Roles : join(id, password, role)
    \/ \E id \in SockIds, b \in BOOLEAN : update_camera_settings(id, b)
    \/ \E id \in SockIds : room_disconnect(id)
    \/ cleanup

SpecRoom == Init /\ [][NextRoom]_vars

\* The handlers that forward, with the joins and disconnections that decide
\* where they forward to.
SignalPasswords == { <<65, 97>>, <<122, 122, 122, 122, 122, 122, 122>> }

NextSignal ==
    \/ room_connection
    \/ \E id \in SockIds, password \in SignalPasswords, role \in {"camera", "viewer"} :
          join(id, password, role)
    \/ \E id \in SockIds, t \in SockIds, p \in Payloads : webrtc_offer(id, t, p)
    \/ \E id \in SockIds, t \in SockIds, p \in Payloads : webrtc_answer(id, t, p)
    \/ \E id \in SockIds, t \in SockIds, p \in Payloads : ice_candidate(id, t, p)
    \/ \E id \in SockIds, p \in Payloads : toggle_flashlight(id, p)
    \/ \E id \in SockIds, p \in Payloads : telemetry(id, p)
    \/ \E id \in SockIds : room_disconnect(id)

SpecSignal == Init /\ [][NextSignal]_vars

\* ========================================================================
\* Claims
\* ========================================================================
Peer(id) == connections[id].connectedTo

Eligible(conn, id) ==
    /\ conn[id].role = "camera"
    /\ conn[id].status \in {"ready", "streaming"}
    /\ conn[id].connectedTo = Null

NoCam(to, info) ==
    {i \in 1..Len(emitted) : /\ emitted[i].to = to
                             /\ emitted[i].ev = "noCameraAvailable"
                             /\ emitted[i].info = info}

Pos(id) == CHOOSE i \in 1..Len(order) : order[i] = id

PendingFor(id) == {i \in 1..Len(timers) : timers[i].sid = id}

\* C1: pairing symmetry. After any handler has run, for all connections A
\* and B in the registry, A.connectedTo = B exactly when B.connectedTo = A.
C1_PairingSymmetry ==
    \A a \in Live : \A b \in Live : (Peer(a) = b) <=> (Peer(b) = a)

\* C2: connectCameraToSpectator fails when either id is absent from the
\* registry or the camera already has a peer, and a failed call changes no
\* connection and emits no connectionInitiated.
C2_FailureChangesNothing ==
    \A i \in 1..Len(calls) :
        (~calls[i].camIn \/ ~calls[i].specIn \/ calls[i].camPeer # Null)
            => /\ calls[i].ret # "true"
               /\ ~calls[i].changed
               /\ calls[i].em = << >>

\* C3: a pairing is committed only if the peer of both sides is still unset:
\* a retry of attemptSpectatorConnection that fires after its spectator was
\* paired never gives that spectator a second camera.
C3_RetryNeverSecondCamera ==
    last.ev = "retryTimer" =>
        \A i \in 1..Len(calls) :
            calls[i].ret = "true" => calls[i].camPeer = Null /\ calls[i].specPeer = Null

\* C3, the consequence: no connection is the connectedTo of two distinct
\* connections.
C3_NoSharedPeer ==
    \A a \in Live : \A b \in Live :
        (a # b /\ Peer(a) # Null) => Peer(a) # Peer(b)

\* C4 as stated: a spectator that registered once while no camera was
\* eligible never receives more than one noCameraAvailable, and receives it
\* only from the third failed attempt of its retry loop.
C4_ExactlyOneNotification ==
    \A s \in Live :
        hist[s].lone =>
            /\ hist[s].exhausted + hist[s].cameraLeft <= 1
            /\ (NoCam(s, "exhausted") \cup NoCam(s, "cameraLeft") # {}
                  => last.ev = "retryTimer" /\ last.id = s /\ last.n = 3)

\* C4 as amended: the retry loop of such a spectator sends it at most one
\* noCameraAvailable, and only from its third attempt, when all three found
\* no camera; when the loop has ended and the spectator has never been
\* linked, it has received exactly one. (handlePeerDisconnection sends
\* further ones when a camera it was linked to leaves.)
C4_RetryLoopNotifiesOnce ==
    \A s \in Live :
        hist[s].lone =>
            /\ hist[s].exhausted <= 1
            /\ NoCam(s, "exhausted") # {}
                  => /\ last.ev = "retryTimer" /\ last.id = s /\ last.n = 3
                     /\ Cardinality(NoCam(s, "exhausted")) = 1
            /\ hist[s].exhausted = 1 => PendingFor(s) = {}
            /\ (PendingFor(s) = {} /\ Peer(s) = Null /\ hist[s].cameraLeft = 0)
                  => hist[s].exhausted = 1

C4_Witness ==
    \E s \in Live :
        /\ hist[s].lone /\ hist[s].exhausted = 1
        /\ last.ev = "retryTimer" /\ last.id = s /\ last.n = 3
        /\ NoCam(s, "exhausted") # {}

\* C5: retry cancellation. A retry that fires after its spectator has left
\* the registry adds no entry, links nothing, changes no status and emits
\* nothing.
C5_RetryAfterDisconnectIsNoOp ==
    [][ (last'.ev = "retryTimer" /\ last'.id \notin Live)
          => /\ connections' = connections
             /\ order' = order
             /\ emitted' = << >> ]_vars

\* A retry for a departed spectator fired while a camera was available, so
\* connectCameraToSpectator was called for it.
C5_Witness ==
    /\ last.ev = "retryTimer"
    /\ last.id \notin Live
    /\ Len(calls) = 1
    /\ calls[1].spec = last.id

\* C6: disconnect reassignment. Camera X is linked with spectator Y, camera Z
\* is ready with no peer and no eligible camera was inserted before it (it
\* is the only idle camera, or the earliest-inserted of several). When X
\* disconnects, the handler leaves Y linked with Z and Z with Y, and X gone.
C6_DisconnectReassignment ==
    [][ \A x \in Live : \A z \in Live :
          ( /\ last'.ev = "disconnect" /\ last'.id = x
            /\ connections[x].role = "camera"
            /\ Peer(x) \in Live
            /\ connections[Peer(x)].role = "spectator"
            /\ z # x
            /\ connections[z].role = "camera"
            /\ connections[z].status = "ready"
            /\ Peer(z) = Null
            /\ \A w \in Live : Eligible(connections, w) => Pos(z) <= Pos(w) )
          => /\ connections'[Peer(x)].connectedTo = z
             /\ connections'[z].connectedTo = Peer(x)
             /\ x \notin DOMAIN connections' ]_vars

\* The disconnect of a camera has just re-linked its spectator to another
\* camera.
C6_Witness ==
    /\ last.ev = "disconnect"
    /\ Len(emitted) = 3
    /\ emitted[1].ev = "peerDisconnected" /\ emitted[1].info = "wasCamera"
    /\ emitted[2].ev = "connectionInitiated"
    /\ Len(calls) = 1 /\ calls[1].ret = "true"
    /\ calls[1].spec = emitted[1].to
    /\ Peer(calls[1].spec) = calls[1].cam
    /\ Peer(calls[1].cam) = calls[1].spec

\* C7: handlePeerDisconnection is idempotent. Called a second time for the
\* same id, it leaves the registry as the first call left it and emits
\* nothing, so the survivor gets one peerDisconnected.
C7_Idempotent ==
    \A x \in Live :
        LET r1 == handlePeerDisconnection(order, connections, x)
            r2 == handlePeerDisconnection(order, r1.conn, x)
            both == r1.em \o r2.em
        IN  /\ r2.conn = r1.conn
            /\ r2.em = << >>
            /\ Peer(x) \in Live =>
                 Cardinality({i \in 1..Len(both) :
                     both[i].ev = "peerDisconnected" /\ both[i].to = Peer(x)}) = 1

\* A disconnect has just notified a survivor, and another linked pair is in
\* the registry, for which the first call is not a no-op.
C7_Witness ==
    /\ last.ev = "disconnect"
    /\ \E i \in 1..Len(emitted) : emitted[i].ev = "peerDisconnected"
    /\ \E x \in Live : Peer(x) \in Live

\* C8, the join alone: a join as camera into a room whose slot is held by
\* another socket leaves the joiner in the slot and the other socket closing
\* or out of the registry.
C8_JoinInstallsNewCamera ==
    [][ (rlast'.ev = "join" /\ rlast'.role = "camera" /\ rlast'.old # Null)
          => /\ heap'[rlast'.room].camera.socketId = rlast'.id
             /\ \/ rlast'.old \notin DOMAIN sockets'
                \/ sockets'[rlast'.old].closing ]_vars

CameraEvents ==
    {"stream_frame", "motionDetected", "toggleFlashlight",
     "motionStatusChange", "cameraStatusResponse"}

SpectatorEvents ==
    {"spectatorToggleFlashlight", "spectatorToggleMotion",
     "spectatorSetQuality", "spectatorRequestStatus"}

\* C9: role enforcement. A camera event from a connection whose role is not
\* camera, or a spectator event from one whose role is not spectator, changes
\* no connection's role, status or peer and delivers nothing.
C9_RoleEnforcement ==
    [][ ( \/ last'.ev \in CameraEvents /\ connections[last'.id].role # "camera"
          \/ last'.ev \in SpectatorEvents /\ connections[last'.id].role # "spectator" )
          => /\ connections' = connections
             /\ order' = order
             /\ emitted' = << >> ]_vars

\* A spectator that is linked to a camera has just sent stream_frame.
C9_Witness ==
    /\ last.ev = "stream_frame"
    /\ connections[last.id].role = "spectator"
    /\ Peer(last.id) \in Live

\* C10: relay with no peer is a pure drop. A camera whose connectedTo is
\* unset, or names an id that is not in the registry, sends a camera event:
\* nothing is delivered and the registry, the sender's status included, is
\* unchanged.
C10_NoPeerIsPureDrop ==
    [][ ( /\ last'.ev \in CameraEvents
          /\ connections[last'.id].role = "camera"
          /\ Peer(last'.id) \notin Live )
          => /\ connections' = connections
             /\ emitted' = << >> ]_vars

\* C11: a role is set once. A registerAsCamera or registerAsSpectator served
\* for a connection that already has a role leaves every connection's role,
\* status and peer unchanged and starts no matchmaking and no retry loop.
C11_RoleSetOnce ==
    [][ ( /\ last'.ev \in {"registerAsCamera", "registerAsSpectator"}
          /\ connections[last'.id].role # "none" )
          => /\ connections' = connections
             /\ timers' = timers
             /\ calls' = << >> ]_vars

\* A connection that had a role has just been served a registration.
C11_Reregistered ==
    /\ last.ev \in {"registerAsCamera", "registerAsSpectator"}
    /\ reregs = 1

\* C12: immediate match. A connection without a role registers as spectator
\* while a camera is ready with no peer: the first attempt links it with the
\* earliest-inserted eligible camera, no retry timer is scheduled, and each
\* side is sent exactly one connectionInitiated, carrying the other side's
\* id and the recipient's own role.
C12_ImmediateMatch ==
    [][ \A s \in Live :
          ( /\ last'.ev = "registerAsSpectator" /\ last'.id = s
            /\ connections[s].role = "none"
            /\ \E c \in Live : /\ connections[c].role = "camera"
                               /\ connections[c].status = "ready"
                               /\ Peer(c) = Null )
          => \E c \in Live :
               /\ Eligible(connections, c)
               /\ \A w \in Live : Eligible(connections, w) => Pos(c) <= Pos(w)
               /\ last'.n = 1
               /\ timers' = timers
               /\ connections'[s].connectedTo = c
               /\ connections'[c].connectedTo = s
               /\ emitted' = << E(c, "connectionInitiated", s, connections'[c].role),
                                E(s, "connectionInitiated", c, connections'[s].role) >> ]_vars

\* A camera registered and reported ready with no spectator present, and a
\* spectator that then registered was linked with it by its first attempt.
C12_Witness ==
    /\ last.ev = "registerAsSpectator" /\ last.n = 1
    /\ reregs = 0
    /\ Len(calls) = 1 /\ calls[1].ret = "true"
    /\ calls[1].spec = last.id
    /\ Cardinality({k \in Live : connections[k].role = "spectator"}) = 1
    /\ Peer(last.id) = calls[1].cam
    /\ Peer(calls[1].cam) = last.id
    /\ timers = << >>

\* C13: an exhausted spectator is not auto-paired. A spectator that
\* registered once with no camera eligible, used its three attempts, was
\* sent noCameraAvailable and has no peer, stays without a peer when a
\* camera sends registerAsCamera or cameraReady; only a registration of its
\* own links it.
C13_ExhaustedNotAutoPaired ==
    [][ \A s \in Live :
          ( /\ last'.ev \in {"registerAsCamera", "cameraReady"}
            /\ last'.id # s
            /\ connections[s].role = "spectator"
            /\ hist[s].lone /\ hist[s].exhausted = 1
            /\ PendingFor(s) = {}
            /\ Peer(s) = Null )
          => connections'[s].connectedTo = Null ]_vars

\* A lone spectator has used up its attempts and been told so.
C13_Exhausted ==
    \E s \in Live :
        /\ connections[s].role = "spectator"
        /\ hist[s].lone /\ hist[s].exhausted = 1
        /\ PendingFor(s) = {}
        /\ Peer(s) = Null

\* C14: removal happens only after unpairing. The disconnect handler of X
\* notifies the connection X was linked to, and when it completes X is
\* absent from the registry and no remaining connection has connectedTo = X.
C14_RemovedAfterUnpairing ==
    [][ last'.ev = "disconnect"
          => /\ last'.id \notin DOMAIN connections'
             /\ Peer(last'.id) \in Live
                  => \E i \in 1..Len(emitted') :
                        /\ emitted'[i].ev = "peerDisconnected"
                        /\ emitted'[i].to = Peer(last'.id)
             /\ \A k \in DOMAIN connections' :
                   connections'[k].connectedTo # last'.id ]_vars

\* C14 without the last part: the disconnecting entry is deleted and the
\* connection it was linked to is notified and no longer names it.
C14_OwnPeerUnlinked ==
    [][ last'.ev = "disconnect"
          => /\ last'.id \notin DOMAIN connections'
             /\ Peer(last'.id) \in DOMAIN connections'
                  => /\ \E i \in 1..Len(emitted') :
                          /\ emitted'[i].ev = "peerDisconnected"
                          /\ emitted'[i].to = Peer(last'.id)
                     /\ connections'[Peer(last'.id)].connectedTo # last'.id ]_vars

\* C18: when the retry bound is reached, the spectator is set to searching
\* and sent noCameraAvailable only if it has no peer: a retry never tells a
\* spectator whose connectedTo is set that no camera is available, and
\* never changes that spectator's status.
C18_NoExhaustionWhilePaired ==
    [][ \A s \in Live :
          ( /\ last'.ev = "retryTimer" /\ last'.id = s
            /\ Peer(s) # Null )
          => /\ \A i \in 1..Len(emitted') :
                  ~(emitted'[i].ev = "noCameraAvailable" /\ emitted'[i].to = s)
             /\ connections'[s].status = connections[s].status ]_vars

\* A retry has fired for a spectator that a camera had been linked with
\* since the spectator registered.
C18_PairedDuringRetries ==
    /\ last.ev = "retryTimer"
    /\ last.id \in Live
    /\ connections[last.id].role = "spectator"
    /\ Peer(last.id) \in Live
    /\ connections[Peer(last.id)].role = "camera"

\* C19: no dangling peer reference. After every handler, every connectedTo
\* that is set names an id that is in the registry.
C19_NoDanglingPeer ==
    \A k \in Live : Peer(k) # Null => Peer(k) \in Live

\* C20: handlePeerDisconnection for a connection X whose connectedTo names
\* Y, Y in the registry: Y is sent exactly one peerDisconnected, whose
\* wasCamera flag is true exactly when X's role is camera, and when the call
\* returns X.connectedTo is null and Y.connectedTo is not X.
C20_PeerNotifiedAndUnlinked ==
    \A x \in Live :
        Peer(x) \in Live =>
            LET y == Peer(x)
                r == handlePeerDisconnection(order, connections, x)
                notes == {i \in 1..Len(r.em) :
                            r.em[i].ev = "peerDisconnected" /\ r.em[i].to = y}
            IN  /\ Cardinality(notes) = 1
                /\ \A i \in notes :
                      (r.em[i].info = "wasCamera") <=> (connections[x].role = "camera")
                /\ r.conn[x].connectedTo = Null
                /\ r.conn[y].connectedTo # x

\* A spectator has just disconnected from the camera it was linked with,
\* and a camera that is linked with a spectator is in the registry.
C20_Witness ==
    /\ last.ev = "disconnect"
    /\ \E i \in 1..Len(emitted) :
          emitted[i].ev = "peerDisconnected" /\ emitted[i].info = "wasNotCamera"
    /\ \E x \in Live : /\ connections[x].role = "camera"
                       /\ Peer(x) \in Live
                       /\ connections[Peer(x)].role = "spectator"

HandshakeEvents == {"webrtc_offer", "webrtc_answer", "ice_candidate"}

\* C15: handshake relay. A webrtc_offer, webrtc_answer or ice_candidate
\* whose targetSocketId is in the sockets registry is forwarded exactly
\* once, to that target only, under the same event name, with the payload
\* unchanged and fromSocketId the sender's id; when the target is not in
\* the registry nothing is sent; in both cases the sockets registry and the
\* rooms are unchanged.
C15_HandshakeRelay ==
    [][ rlast'.ev \in HandshakeEvents
          => /\ rlast'.target \in DOMAIN sockets
                  => sent' = << M(rlast'.target, rlast'.ev, rlast'.id,
                                  rlast'.payload, FALSE, 0) >>
             /\ rlast'.target \notin DOMAIN sockets => sent' = << >>
             /\ sockets' = sockets
             /\ rooms' = rooms
             /\ heap' = heap ]_vars

\* A handshake message has just been forwarded to another socket, and it
\* carried the second payload.
C15_Witness ==
    /\ rlast.ev \in HandshakeEvents
    /\ rlast.target # rlast.id
    /\ rlast.payload = 2
    /\ Len(sent) = 1
    /\ sent[1].to = rlast.target

\* A handshake message has just been sent to an id that is not in the
\* registry.
C15_WitnessMiss ==
    /\ rlast.ev \in HandshakeEvents
    /\ rlast.target \notin DOMAIN sockets

\* C16: relay isolation. A handshake message is forwarded only to a socket
\* that has joined a room the sender has joined: a sender that has joined
\* no room, or no room of the target, causes nothing to be sent to it.
C16_RelayIsolation ==
    [][ rlast'.ev \in HandshakeEvents
          => \A i \in 1..Len(sent') :
                /\ sent'[i].to \in DOMAIN sockets
                /\ sockets[rlast'.id].joined \cap sockets[sent'[i].to].joined # {} ]_vars

\* A socket that has joined no room has just had a handshake message
\* forwarded to a socket that has joined one.
C16_Outsider ==
    /\ rlast.ev \in HandshakeEvents
    /\ rlast.id \in DOMAIN sockets
    /\ sockets[rlast.id].joined = {}
    /\ Len(sent) = 1
    /\ sent[1].to \in DOMAIN sockets
    /\ sockets[sent[1].to].joined # {}

\* The room object ref records nobody.
EmptyRoom(hp, ref) ==
    hp[ref].camera.socketId = Null /\ hp[ref].viewers = << >>

\* C17, creation, reuse and cleanup: a join creates the room of its password
\* when the Map has none under that id and otherwise takes the one the Map
\* holds, no handler but the cleanup removes a room from the Map, and the
\* cleanup removes only rooms without camera and viewers.
C17_CreateReuseCleanup ==
    [][ /\ rlast'.ev = "join"
          => \E p \in Passwords :
               LET roomId == generateRoomId(p)
               IN  /\ heap'[rlast'.room].id = roomId
                   /\ rooms'[roomId] = rlast'.room
                   /\ roomId \in DOMAIN rooms
                        => rooms' = rooms /\ Len(heap') = Len(heap)
                   /\ roomId \notin DOMAIN rooms
                        => /\ Len(heap') = Len(heap) + 1
                           /\ rlast'.room = Len(heap')
                           /\ heap'[rlast'.room].password = p
        /\ rlast'.ev # "cleanup"
          => \A r \in DOMAIN rooms : r \in DOMAIN rooms' /\ rooms'[r] = rooms[r]
        /\ rlast'.ev = "cleanup"
          => /\ \A r \in DOMAIN rooms :
                  r \notin DOMAIN rooms' <=> EmptyRoom(heap, rooms[r])
             /\ \A r \in DOMAIN rooms' : r \in DOMAIN rooms /\ rooms'[r] = rooms[r] ]_vars

\* C17: room lifecycle. Creation, reuse and cleanup as above, and a room
\* whose participants have all disconnected records no camera and no viewer
\* once their disconnect handlers have run, so that the next cleanup
\* deletes it: after every handler, a room of the Map that no connected
\* socket has joined is empty.
C17_RoomLifecycle ==
    [][ /\ rlast'.ev = "join"
          => \E p \in Passwords :
               LET roomId == generateRoomId(p)
               IN  /\ heap'[rlast'.room].id = roomId
                   /\ rooms'[roomId] = rlast'.room
                   /\ roomId \in DOMAIN rooms
                        => rooms' = rooms /\ Len(heap') = Len(heap)
                   /\ roomId \notin DOMAIN rooms
                        => /\ Len(heap') = Len(heap) + 1
                           /\ rlast'.room = Len(heap')
        /\ rlast'.ev = "cleanup"
          => \A r \in DOMAIN rooms :
                r \notin DOMAIN rooms' <=> EmptyRoom(heap, rooms[r])
        /\ \A r \in DOMAIN rooms' :
              (\A k \in DOMAIN sockets' : r \notin sockets'[k].joined)
                  => EmptyRoom(heap', rooms'[r]) ]_vars

\* Every socket has disconnected and the Map holds a room that still records
\* a viewer or a camera: no handler will ever empty it.
C17_Stranded ==
    /\ nextSock > NumSockets
    /\ DOMAIN sockets = {}
    /\ \E r \in DOMAIN rooms : ~EmptyRoom(heap, rooms[r])

\* The cameras findAvailableCamera can return once connection x is set aside.
EligibleBut(x) == {c \in Live \ {x} : Eligible(connections, c)}

\* C21: spectator survivor. When the connection that disconnects is linked
\* to a spectator of the registry, the handler first sends that spectator
\* peerDisconnected; then, if an eligible camera exists, the spectator ends
\* linked with one (the link is mutual) and is sent connectionInitiated
\* carrying that camera's id; otherwise it is sent exactly one
\* noCameraAvailable and ends in status searching with no peer.
C21_SpectatorSurvivor ==
    [][ \A x \in Live : \A y \in Live :
          ( /\ last'.ev = "disconnect" /\ last'.id = x
            /\ Peer(x) = y /\ y # x
            /\ connections[y].role = "spectator" )
          => /\ Len(emitted') >= 2
             /\ emitted'[1].to = y /\ emitted'[1].ev = "peerDisconnected"
             /\ IF EligibleBut(x) # {}
                THEN /\ connections'[y].connectedTo \in EligibleBut(x)
                     /\ connections'[connections'[y].connectedTo].connectedTo = y
                     /\ \E i \in 2..Len(emitted') :
                           /\ emitted'[i].to = y
                           /\ emitted'[i].ev = "connectionInitiated"
                           /\ emitted'[i].peer = connections'[y].connectedTo
                     /\ \A i \in 1..Len(emitted') :
                           emitted'[i].ev # "noCameraAvailable"
                ELSE /\ connections'[y].connectedTo = Null
                     /\ connections'[y].status = "searching"
                     /\ Cardinality({i \in 2..Len(emitted') :
                           /\ emitted'[i].to = y
                           /\ emitted'[i].ev = "noCameraAvailable"}) = 1
                     /\ \A i \in 1..Len(emitted') :
                           emitted'[i].ev # "connectionInitiated" ]_vars

\* A spectator has just lost its camera and been told no camera is left.
C21_Witness ==
    /\ last.ev = "disconnect"
    /\ Len(emitted) = 2
    /\ emitted[1].ev = "peerDisconnected" /\ emitted[1].info = "wasCamera"
    /\ emitted[2].ev = "noCameraAvailable" /\ emitted[2].to = emitted[1].to
    /\ emitted[1].to \in Live
    /\ connections[emitted[1].to].role = "spectator"
    /\ connections[emitted[1].to].status = "searching"
    /\ Peer(emitted[1].to) = Null

\* A spectator has just lost its camera and been linked with another one.
C21_WitnessRematched ==
    /\ last.ev = "disconnect"
    /\ Len(emitted) = 3
    /\ emitted[1].ev = "peerDisconnected"
    /\ emitted[3].ev = "connectionInitiated" /\ emitted[3].to = emitted[1].to
    /\ Peer(emitted[1].to) = emitted[3].peer

\* C22: camera survivor. When the connection that disconnects is linked to
\* a camera of the registry, the handler leaves that camera in status ready
\* with no peer, so that it qualifies for findAvailableCamera again. Stated
\* on the registry, it is required of both definitions of
\* handlePeerDisconnection.
C22_CameraSurvivorReady ==
    [][ \A x \in Live : \A y \in Live :
          ( /\ last'.ev = "disconnect" /\ last'.id = x
            /\ Peer(x) = y /\ y # x
            /\ connections[y].role = "camera" )
          => /\ connections'[y].status = "ready"
             /\ connections'[y].connectedTo = Null ]_vars

\* A camera has just lost its spectator and is left in a status no
\* definition of findAvailableCamera accepts.
C22_CameraStuck ==
    /\ last.ev = "disconnect"
    /\ \E y \in Live :
          /\ connections[y].role = "camera"
          /\ Peer(y) = Null
          /\ connections[y].status = "searching"
          /\ \E i \in 1..Len(emitted) :
                emitted[i].to = y /\ emitted[i].ev = "peerDisconnected"

\* C23: a waiting spectator is served when a camera appears. After any
\* handler, when no retry timer is pending, the registry does not hold both
\* an eligible camera (role camera, status ready or streaming, no peer) and
\* a spectator with no peer.
C23_WaitingSpectatorServed ==
    timers = << >> =>
        ~ /\ \E c \in Live : Eligible(connections, c)
          /\ \E s \in Live : connections[s].role = "spectator" /\ Peer(s) = Null

\* C23, the case of the freed camera: when a spectator linked with a camera
\* disconnects while another spectator waits in searching with no peer and
\* no retry timer is pending, the handler leaves the camera linked with a
\* spectator that was waiting.
C23_FreedCameraServesWaiting ==
    [][ \A x \in Live : \A c \in Live :
          ( /\ last'.ev = "disconnect" /\ last'.id = x
            /\ connections[x].role = "spectator"
            /\ Peer(x) = c /\ Peer(c) = x
            /\ connections[c].role = "camera"
            /\ timers = << >>
            /\ \E s \in Live \ {x} : /\ connections[s].role = "spectator"
                                     /\ connections[s].status = "searching"
                                     /\ Peer(s) = Null )
          => /\ connections'[c].connectedTo \in Live \ {x}
             /\ connections[connections'[c].connectedTo].role = "spectator"
             /\ connections[connections'[c].connectedTo].connectedTo = Null ]_vars

\* A spectator has just disconnected: its camera is ready with no peer, a
\* spectator waits in searching with no peer, and no retry timer is left.
C23_FreedCameraIdle ==
    /\ last.ev = "disconnect"
    /\ timers = << >>
    /\ reregs = 0
    /\ \E c \in Live :
          /\ connections[c].role = "camera"
          /\ connections[c].status = "ready"
          /\ Peer(c) = Null
          /\ \E i \in 1..Len(emitted) :
                emitted[i].to = c /\ emitted[i].ev = "peerDisconnected"
    /\ \E s \in Live :
          /\ connections[s].role = "spectator"
          /\ connections[s].status = "searching"
          /\ Peer(s) = Null

\* C24: a camera is paired only from an eligible state. Every call of
\* connectCameraToSpectator that links, whatever handler made it, found its
\* camera in status ready or streaming with no peer; a camera in status
\* initializing is never linked.
C24_PairedOnlyWhenEligible ==
    \A i \in 1..Len(calls) :
        calls[i].ret = "true"
            => /\ calls[i].camStatus \in {"ready", "streaming"}
               /\ calls[i].camPeer = Null

\* registerAsCamera has just linked the camera it registered, which has
\* never sent cameraReady, with a waiting spectator.
C24_PairedWhileInitializing ==
    /\ last.ev = "registerAsCamera"
    /\ reregs = 0
    /\ Len(calls) = 1
    /\ calls[1].ret = "true"
    /\ calls[1].cam = last.id
    /\ calls[1].camStatus = "initializing"
    /\ Peer(last.id) = calls[1].spec

\* The connectedTo links of the registry join a camera and a spectator, and
\* every connectionInitiated just sent names the role its recipient has.
OneCameraOneSpectator ==
    /\ \A a \in Live :
          Peer(a) \in Live
              => /\ Peer(a) # a
                 /\ {connections[a].role, connections[Peer(a)].role}
                        = {"camera", "spectator"}
    /\ \A i \in 1..Len(emitted) :
          (emitted[i].ev = "connectionInitiated" /\ emitted[i].to \in Live)
              => emitted[i].info = connections[emitted[i].to].role

\* C25: every pairing consists of exactly one camera and one spectator.
\* After any handler, if A.connectedTo = B then A is not B, one of the two
\* has role camera and the other role spectator, and the role field of each
\* connectionInitiated is the role of its recipient in the registry.
C25_OneCameraOneSpectator == OneCameraOneSpectator

\* C25 for runs in which no connection registers a second time.
C25_WithoutReregistration == reregs = 0 => OneCameraOneSpectator

\* A linked pair exists, and a connection is linked to a connection of its
\* own role.
C25_SameRolePair ==
    \E a \in Live :
        /\ Peer(a) \in Live
        /\ Peer(a) # a
        /\ Peer(Peer(a)) = a
        /\ connections[a].role = connections[Peer(a)].role

\* C26: the retry loop is bounded and uses current state. A run of
\* tryConnect is at most the third of its loop, the third schedules no
\* timer, and every pending timer belongs to a loop that has run once or
\* twice; and a retry that fires while its spectator is in the registry
\* with no peer and a camera is eligible leaves the spectator linked with
\* the earliest-inserted eligible camera, and schedules nothing.
C26_BoundedRetryOnCurrentState ==
    [][ /\ last'.ev \in {"registerAsSpectator", "retryTimer"}
          => /\ last'.n \in 1..maxAttempts
             /\ last'.n = maxAttempts => Len(timers') <= Len(timers)
             /\ last'.ev = "retryTimer" => Len(timers') <= Len(timers)
        /\ \A i \in 1..Len(timers') : timers'[i].attempts \in 1..(maxAttempts - 1)
        /\ \A s \in Live : \A c \in Live :
              ( /\ last'.ev = "retryTimer" /\ last'.id = s
                /\ connections[s].role = "spectator"
                /\ Peer(s) = Null
                /\ Eligible(connections, c)
                /\ \A w \in Live : Eligible(connections, w) => Pos(c) <= Pos(w) )
              => /\ connections'[s].connectedTo = c
                 /\ connections'[c].connectedTo = s
                 /\ Len(timers') = Len(timers) - 1 ]_vars

\* A retry, not the first attempt, has just linked its spectator with a
\* camera that was not eligible when the spectator registered.
C26_Witness ==
    /\ last.ev = "retryTimer"
    /\ last.n \in 2..maxAttempts
    /\ last.id \in Live
    /\ connections[last.id].role = "spectator"
    /\ Len(calls) = 1
    /\ calls[1].ret = "true"
    /\ calls[1].spec = last.id
    /\ calls[1].specPeer = Null
    /\ Peer(last.id) = calls[1].cam
    /\ Peer(calls[1].cam) = last.id

\* The third attempt of a loop has just found no camera and given up.
C26_WitnessGaveUp ==
    /\ last.ev = "retryTimer"
    /\ last.n = maxAttempts
    /\ NoCam(last.id, "exhausted") # {}
    /\ PendingFor(last.id) = {}

\* C27: connectCameraToSpectator is the only operation that creates a peer
\* link. A connection enters the registry with connectedTo unset, and when
\* a handler changes the connectedTo of a connection, the new value is null
\* unless a call of connectCameraToSpectator that linked, made by that
\* handler for that connection, wrote it.
C27_OnlyConnectCreatesLinks ==
    [][ /\ \A k \in DOMAIN connections' \ Live :
              connections'[k].connectedTo = Null
        /\ \A k \in DOMAIN connections' \cap Live :
              ( /\ connections'[k].connectedTo # connections[k].connectedTo
                /\ connections'[k].connectedTo # Null )
              => \E i \in 1..Len(calls') :
                    /\ calls'[i].changed
                    /\ \/ /\ calls'[i].cam = k
                          /\ connections'[k].connectedTo = calls'[i].spec
                       \/ /\ calls'[i].spec = k
                          /\ connections'[k].connectedTo = calls'[i].cam ]_vars

\* A disconnect has just unlinked a survivor and, through
\* connectCameraToSpectator, linked it again: both kinds of write to
\* connectedTo in one handler.
C27_Witness ==
    /\ last.ev = "disconnect"
    /\ Len(calls) = 1
    /\ calls[1].ret = "true"
    /\ calls[1].specPeer = Null
    /\ Peer(calls[1].spec) = calls[1].cam
    /\ Peer(calls[1].cam) = calls[1].spec
    /\ \E i \in 1..Len(emitted) :
          emitted[i].ev = "peerDisconnected" /\ emitted[i].to = calls[1].spec

\* What a call that linked cam and spec on registry conn must have made of
\* it: r is the result of the call.
LinkedBoth(conn, r, cam, spec) ==
    /\ DOMAIN r.conn = DOMAIN conn
    /\ r.conn[cam].connectedTo = spec
    /\ r.conn[spec].connectedTo = cam
    /\ r.conn[cam].status = r.conn[spec].status
    /\ r.conn[cam].status \in {"connecting", "streaming"}
    /\ r.conn[cam].role = conn[cam].role
    /\ r.conn[spec].role = conn[spec].role
    /\ \A k \in DOMAIN conn \ {cam, spec} : r.conn[k] = conn[k]
    /\ Cardinality({i \in 1..Len(r.em) :
          /\ r.em[i].to = cam /\ r.em[i].ev = "connectionInitiated"
          /\ r.em[i].peer = spec}) = 1
    /\ Cardinality({i \in 1..Len(r.em) :
          /\ r.em[i].to = spec /\ r.em[i].ev = "connectionInitiated"
          /\ r.em[i].peer = cam}) = 1
    /\ Len(r.em) = 2

\* C28: a successful connectCameraToSpectator(camera, spectator), on any
\* registry the server reaches and for any two distinct ids, sets
\* camera.connectedTo = spectator and spectator.connectedTo = camera, gives
\* both the same status, connecting or streaming, sends each side exactly
\* one connectionInitiated carrying the id of the other, and changes no
\* third connection; and the handler that has just made such a call leaves
\* the two linked with each other.
C28_SuccessfulConnect ==
    /\ \A cam \in Ids : \A spec \in Ids \ {cam} :
          LET r == connectCameraToSpectator(connections, cam, spec)
          IN  r.ret = "true" => LinkedBoth(connections, r, cam, spec)
    /\ \A i \in 1..Len(calls) :
          ( /\ calls[i].ret = "true" /\ calls[i].cam # calls[i].spec
            /\ last.ev # "disconnect" )
            => /\ Peer(calls[i].cam) = calls[i].spec
               /\ Peer(calls[i].spec) = calls[i].cam
               /\ connections[calls[i].cam].status = connections[calls[i].spec].status
               /\ calls[i].em = << E(calls[i].cam, "connectionInitiated", calls[i].spec, "camera"),
                                   E(calls[i].spec, "connectionInitiated", calls[i].cam, "spectator") >>

\* C28 for the second definition of connectCameraToSpectator, which returns
\* nothing: a call that changed the registry.
C28_SuccessfulConnect_v2 ==
    \A cam \in Ids : \A spec \in Ids \ {cam} :
        LET r == connectCameraToSpectator_v2(connections, cam, spec)
        IN  r.conn # connections => LinkedBoth(connections, r, cam, spec)

\* A handler has just linked a camera and a spectator while a third
\* connection, linked to nobody, is in the registry.
C28_Witness ==
    /\ Len(calls) = 1
    /\ calls[1].ret = "true"
    /\ calls[1].cam # calls[1].spec
    /\ Peer(calls[1].cam) = calls[1].spec
    /\ Peer(calls[1].spec) = calls[1].cam
    /\ \E k \in Live \ {calls[1].cam, calls[1].spec} :
          connections[k].role # "none" /\ Peer(k) = Null

\* The statuses the handlers write.
Statuses == {"connected", "initializing", "ready", "searching", "streaming"}

\* id is the earliest-inserted key of conn among those in Q, or null when Q
\* is empty.
EarliestOf(ord, Q, id) ==
    IF Q = {} THEN id = Null
    ELSE /\ id \in Q
         /\ \A q \in Q :
               (CHOOSE i \in 1..Len(ord) : ord[i] = id)
                  <= (CHOOSE i \in 1..Len(ord) : ord[i] = q)

\* C29: candidate selection. On every registry the server reaches, and on
\* the same registry with the status of any one connection replaced by any
\* other status, findAnySpectator returns the earliest-inserted connection
\* with role spectator and no peer, whatever its status, and
\* findAvailableCamera the earliest-inserted camera in status ready or
\* streaming with no peer; each returns null exactly when no connection
\* qualifies. Both are functions of the registry alone.
C29_CandidateSelection ==
    \A k \in Live : \A st \in Statuses :
        LET conn == [connections EXCEPT ![k].status = st]
        IN  /\ EarliestOf(order,
                          {s \in DOMAIN conn : /\ conn[s].role = "spectator"
                                               /\ conn[s].connectedTo = Null},
                          findAnySpectator(order, conn))
            /\ EarliestOf(order,
                          {c \in DOMAIN conn : Eligible(conn, c)},
                          findAvailableCamera(order, conn))

\* registerAsCamera has just linked the earlier of two waiting spectators.
C29_Witness ==
    /\ last.ev = "registerAsCamera"
    /\ Len(calls) = 1
    /\ calls[1].ret = "true"
    /\ Peer(calls[1].spec) = last.id
    /\ \E s \in Live \ {calls[1].spec} :
          /\ connections[s].role = "spectator"
          /\ Peer(s) = Null
          /\ Pos(calls[1].spec) < Pos(s)

\* registerAsSpectator has just linked the spectator with the earlier of
\* two eligible cameras.
C29_WitnessCamera ==
    /\ last.ev = "registerAsSpectator"
    /\ Len(calls) = 1
    /\ calls[1].ret = "true"
    /\ Peer(last.id) = calls[1].cam
    /\ \E c \in Live \ {calls[1].cam} :
          /\ Eligible(connections, c)
          /\ Pos(calls[1].cam) < Pos(c)

\* Socket k is connected and has joined room object ref.
ConnectedIn(k, ref) ==
    /\ k \in DOMAIN sockets
    /\ heap[ref].id \in sockets[k].joined

\* Socket k is connected and its last join put it in room object ref with
\* the given role.
MemberAs(k, ref, role) ==
    /\ k \in DOMAIN sockets
    /\ sockets[k].currentRoom = ref
    /\ sockets[k].clientRole = role

\* C30: room membership matches the live sockets. After any handler, in
\* every room of the Map the camera slot is null or the id of a connected
\* socket that joined that room, the viewers list holds only connected
\* sockets that joined that room, none of them twice, and it holds every
\* connected socket whose last join was as viewer of that room.
C30_MembershipMatchesSockets ==
    \A r \in DOMAIN rooms :
        LET ref == rooms[r]
            cam == heap[ref].camera.socketId
            viewers == heap[ref].viewers
        IN  /\ cam # Null => ConnectedIn(cam, ref)
            /\ \A i \in 1..Len(viewers) :
                  /\ ConnectedIn(viewers[i], ref)
                  /\ \A j \in 1..Len(viewers) : viewers[j] = viewers[i] => j = i
            /\ \A k \in DOMAIN sockets :
                  MemberAs(k, ref, "viewer")
                      => \E i \in 1..Len(viewers) : viewers[i] = k

\* A socket that has sent join twice is listed twice among the viewers of a
\* room.
C30_ListedTwice ==
    \E r \in DOMAIN rooms :
        \E i \in 1..Len(heap[rooms[r]].viewers) :
            \E j \in 1..Len(heap[rooms[r]].viewers) :
                /\ i # j
                /\ heap[rooms[r]].viewers[i] = heap[rooms[r]].viewers[j]

\* A room lists a viewer that has disconnected.
C30_DepartedViewerListed ==
    /\ rlast.ev = "disconnect"
    /\ \E r \in DOMAIN rooms :
          \E i \in 1..Len(heap[rooms[r]].viewers) :
              heap[rooms[r]].viewers[i] = rlast.id

\* C31: room separation by password. Two connected sockets whose last join
\* placed them in the same room supplied the same password, the room being
\* the one created for that password; and generateRoomId gives two
\* different passwords two different room ids.
C31_RoomSeparation ==
    /\ \A k \in DOMAIN sockets :
          sockets[k].currentRoom # Null
              => heap[sockets[k].currentRoom].password = sockets[k].clientPassword
    /\ \A a \in DOMAIN sockets : \A b \in DOMAIN sockets :
          (sockets[a].currentRoom # Null /\ sockets[a].currentRoom = sockets[b].currentRoom)
              => sockets[a].clientPassword = sockets[b].clientPassword
    /\ \A r \in DOMAIN rooms : \A p \in Passwords :
          generateRoomId(p) = r => p = heap[rooms[r]].password

\* A camera and a viewer that supplied different passwords are in one room:
\* the viewer has been told of the camera.
C31_SharedRoom ==
    \E a \in DOMAIN sockets : \E b \in DOMAIN sockets :
        /\ sockets[a].currentRoom # Null
        /\ sockets[a].currentRoom = sockets[b].currentRoom
        /\ sockets[a].clientPassword # sockets[b].clientPassword
        /\ sockets[a].clientRole = "camera"
        /\ sockets[b].clientRole = "viewer"
        /\ heap[sockets[a].currentRoom].camera.socketId = a
        /\ rlast.ev = "join" /\ rlast.id = b
        /\ \E i \in 1..Len(sent) :
              sent[i].to = b /\ sent[i].ev = "camera_available" /\ sent[i].from = a

====
